---- MODULE Spec2Model ----
(***************************************************************************)
(* Address-resolution pipeline of the Portland Maps client:                *)
(* PortlandMapsClient.resolveAddress with its two geocoder tiers           *)
(* (geocodeWithArcGIS, geocodeWithWorldGeocoder).                          *)
(*                                                                         *)
(* Units.  Longitudes and latitudes are integers in 1e-4 degree, so the    *)
(* fallback point (-122.6765, 45.5155) is (-1226765, 455155).  A geocoder  *)
(* match score is an integer in tenths (98.5 is 985); a candidate's final  *)
(* score is in whole units, as Math.round produces it.                     *)
(***************************************************************************)
EXTENDS Integers, Sequences, FiniteSets, TLC

\* Longest suggestion list the suggestion service returns in the model.
MaxSuggestions == 2

\* Largest zero-based suggestion position tried on the enrichment function.
MaxIndex == 24

\* Tool requests the server handles at the same time.
MaxRequests == 2

------------------------------------------------------------------------------
\* JavaScript values: a number, undefined (a property the JSON lacks) or NaN.
Num(n) == [t |-> "number", v |-> n]
Undefined == [t |-> "undefined", v |-> 0]
NaN == [t |-> "NaN", v |-> 0]
IsNum(a) == a.t = "number"

Max(a, b) == IF a >= b THEN a ELSE b
Min(a, b) == IF a <= b THEN a ELSE b

------------------------------------------------------------------------------
\* The fallback point of resolveAddress ("Portland center as fallback").
DEFAULT_LON == -1226765
DEFAULT_LAT == 455155

\* Match with the axes exchanged (x read from location.y, y from location.x).
Match_Swapped(c) == [found |-> TRUE, x |-> c.y, y |-> c.x, score |-> c.score]

\* What geocodeWithArcGIS / geocodeWithWorldGeocoder resolve to: null, or
\* { x, y, score } copied from the first candidate of a response.
Null == [found |-> FALSE, x |-> Undefined, y |-> Undefined, score |-> Undefined]
Match(c) == [found |-> TRUE, x |-> c.x, y |-> c.y, score |-> c.score]

\* response.ok of fetch: the status is in 200..299.
ResponseOk(r) == r.status >= 200 /\ r.status <= 299

\* Extract with `candidates.length > 1` for `candidates.length > 0`.
Extract_OffByOne(r) ==
    IF r.net = "error" THEN [how |-> "throw", res |-> Null]
    ELSE IF ~ResponseOk(r) THEN [how |-> "none", res |-> Null]
    ELSE IF ~r.parses THEN [how |-> "throw", res |-> Null]
    ELSE IF r.hasCandidates /\ Len(r.candidates) > 1
         THEN LET candidate == r.candidates[1]
              IN  IF ~candidate.hasLocation
                  THEN [how |-> "throw", res |-> Null]
                  ELSE [how |-> "match", res |-> Match(candidate)]
    ELSE [how |-> "none", res |-> Null]

\* Extract with `candidate.location?.x`: a candidate without a location
\* yields a match with undefined coordinates instead of a TypeError.
Extract_OptionalLocation(r) ==
    IF r.net = "error" THEN [how |-> "throw", res |-> Null]
    ELSE IF ~ResponseOk(r) THEN [how |-> "none", res |-> Null]
    ELSE IF ~r.parses THEN [how |-> "throw", res |-> Null]
    ELSE IF r.hasCandidates /\ Len(r.candidates) > 0
         THEN [how |-> "match", res |-> Match(r.candidates[1])]
    ELSE [how |-> "none", res |-> Null]

\* The try-block of either geocoder once fetch has settled with r: "throw"
\* when fetch rejected, response.json() rejected or candidate.location.x
\* raised a TypeError; "none" for !response.ok and for a missing or empty
\* candidates array; otherwise the extracted match.
Extract(r) ==
    IF r.net = "error" THEN [how |-> "throw", res |-> Null]
    ELSE IF ~ResponseOk(r) THEN [how |-> "none", res |-> Null]
    ELSE IF ~r.parses THEN [how |-> "throw", res |-> Null]
    ELSE IF r.hasCandidates /\ Len(r.candidates) > 0
         THEN LET candidate == r.candidates[1]
              IN  IF ~candidate.hasLocation
                  THEN [how |-> "throw", res |-> Null]
                  ELSE [how |-> "match", res |-> Match(candidate)]
    ELSE [how |-> "none", res |-> Null]

\* BaseScore with a step of 10 per position.
BaseScore_Step10(index) == Max(100 - (index * 10), 50)

\* BaseScore without the floor.
BaseScore_NoFloor(index) == 100 - (index * 5)

\* Math.max(100 - (index * 5), 50)
BaseScore(index) == Max(100 - (index * 5), 50)

\* BlendScore with Math.floor for Math.round.
BlendScore_Truncated(baseScore, score) ==
    IF IsNum(score) THEN Num((10 * baseScore + score.v) \div 20) ELSE NaN

\* Math.round((baseScore + geocodeResult.score) / 2) with the geocoder score
\* in tenths: Math.round(v) is floor(v + 1/2), and NaN when the geocoder
\* score is undefined.
BlendScore(baseScore, score) ==
    IF IsNum(score) THEN Num((10 * baseScore + score.v + 10) \div 20) ELSE NaN

\* Enrich that copies suggestion.value whatever it is.
Enrich_ValueCopied(suggestion, index, geocodeResult, includeRaw) ==
    LET baseScore == BaseScore(index)
    IN  [normalized_address |-> suggestion.label,
         score      |-> IF geocodeResult.found
                        THEN BlendScore(baseScore, geocodeResult.score)
                        ELSE Num(baseScore),
         property_id |-> <<suggestion.value>>,
         taxlot_id  |-> <<>>,
         x_lon      |-> IF geocodeResult.found THEN geocodeResult.x ELSE Num(DEFAULT_LON),
         y_lat      |-> IF geocodeResult.found THEN geocodeResult.y ELSE Num(DEFAULT_LAT),
         source     |-> IF geocodeResult.found THEN "arcgis_geocoder" ELSE "portlandmaps_api",
         raw        |-> IF includeRaw THEN <<suggestion>> ELSE <<>>]

\* The body of the per-suggestion callback after its await: the candidate
\* built from a suggestion, its zero-based index and its geocodeResult.
Enrich(suggestion, index, geocodeResult, includeRaw) ==
    LET baseScore == BaseScore(index)
    IN  [normalized_address |-> suggestion.label,
         score      |-> IF geocodeResult.found
                        THEN BlendScore(baseScore, geocodeResult.score)
                        ELSE Num(baseScore),
         property_id |-> IF suggestion.value # "" THEN <<suggestion.value>> ELSE <<>>,
         taxlot_id  |-> <<>>,
         x_lon      |-> IF geocodeResult.found THEN geocodeResult.x ELSE Num(DEFAULT_LON),
         y_lat      |-> IF geocodeResult.found THEN geocodeResult.y ELSE Num(DEFAULT_LAT),
         source     |-> IF geocodeResult.found THEN "arcgis_geocoder" ELSE "portlandmaps_api",
         raw        |-> IF includeRaw THEN <<suggestion>> ELSE <<>>]

\* InBbox that tests the lower bounds only.
InBbox_MinOnly(c, bbox) ==
    /\ IsNum(c.x_lon) /\ IsNum(c.y_lat)
    /\ c.x_lon.v >= bbox[1]
    /\ c.y_lat.v >= bbox[2]

\* The predicate of candidates.filter: a comparison with undefined is false.
InBbox(c, bbox) ==
    /\ IsNum(c.x_lon) /\ IsNum(c.y_lat)
    /\ c.x_lon.v >= bbox[1] /\ c.x_lon.v <= bbox[3]
    /\ c.y_lat.v >= bbox[2] /\ c.y_lat.v <= bbox[4]

RECURSIVE Filter(_, _)
Filter(cs, bbox) ==
    IF cs = <<>> THEN <<>>
    ELSE IF InBbox(Head(cs), bbox) THEN <<Head(cs)>> \o Filter(Tail(cs), bbox)
    ELSE Filter(Tail(cs), bbox)

\* candidates.slice(0, maxResults), maxResults >= 0
Slice(cs, maxResults) == SubSeq(cs, 1, Min(maxResults, Len(cs)))

\* BboxFilter under `if (bbox)` alone: the components a shorter bbox lacks
\* are undefined, every comparison with them is false, nothing passes.
BboxFilter_AnySupplied(cs, bbox) ==
    IF bbox = <<>> THEN cs
    ELSE IF Len(bbox) = 4 THEN Filter(cs, bbox)
    ELSE <<>>

\* `bbox && bbox.length === 4`: bbox is <<>> when the caller passed none.
BboxFilter(cs, bbox) == IF bbox # <<>> /\ Len(bbox) = 4 THEN Filter(cs, bbox) ELSE cs

\* Finish that cuts to maxResults before it filters.
Finish_SliceFirst(cs, bbox, maxResults) == BboxFilter(Slice(cs, maxResults), bbox)

\* Finish that ranks the candidates by descending score before it cuts.
ScoreKey(c) == IF IsNum(c.score) THEN c.score.v ELSE 0

RECURSIVE InsertByScore(_, _)
InsertByScore(c, cs) ==
    IF cs = <<>> THEN <<c>>
    ELSE IF ScoreKey(c) > ScoreKey(Head(cs)) THEN <<c>> \o cs
    ELSE <<Head(cs)>> \o InsertByScore(c, Tail(cs))

RECURSIVE SortByScore(_)
SortByScore(cs) ==
    IF cs = <<>> THEN <<>> ELSE InsertByScore(Head(cs), SortByScore(Tail(cs)))

Finish_SortedByScore(cs, bbox, maxResults) ==
    Slice(SortByScore(BboxFilter(cs, bbox)), maxResults)

\* Lines 202-214 of resolveAddress: the array Promise.all resolves to (one
\* entry per promise, in the order of the promises), filtered, then cut.
Finish(cs, bbox, maxResults) == Slice(BboxFilter(cs, bbox), maxResults)

------------------------------------------------------------------------------
\* What a fetch settles with: a network error (fetch rejects), or a response
\* with a status and a body that parses as JSON or not, with or without a
\* candidates array.
NetworkError ==
    [net |-> "error", status |-> 0, parses |-> FALSE,
     hasCandidates |-> FALSE, candidates |-> <<>>]
HttpError(status) ==
    [net |-> "ok", status |-> status, parses |-> FALSE,
     hasCandidates |-> FALSE, candidates |-> <<>>]
BadJson ==
    [net |-> "ok", status |-> 200, parses |-> FALSE,
     hasCandidates |-> FALSE, candidates |-> <<>>]
NoCandidatesField ==
    [net |-> "ok", status |-> 200, parses |-> TRUE,
     hasCandidates |-> FALSE, candidates |-> <<>>]
Json(cs) ==
    [net |-> "ok", status |-> 200, parses |-> TRUE,
     hasCandidates |-> TRUE, candidates |-> cs]
\* No fetch has settled yet.
NoResponse ==
    [net |-> "pending", status |-> 0, parses |-> FALSE,
     hasCandidates |-> FALSE, candidates |-> <<>>]

\* First candidates of a geocoder response (maxLocations=1) with a location
\* and a score: a point on the west edge of Bbox with score 85.0 and a point
\* east of Bbox with score 98.5.
WellFormedCandidates ==
    { [hasLocation |-> TRUE,  x |-> Num(-1227000), y |-> Num(455200), score |-> Num(850)],
      [hasLocation |-> TRUE,  x |-> Num(-1225000), y |-> Num(455200), score |-> Num(985)] }

\* First candidates that lack a property the geocoders read: no score, a
\* location without x, no location.
MalformedCandidates ==
    { [hasLocation |-> TRUE,  x |-> Num(-1227000), y |-> Num(455200), score |-> Undefined],
      [hasLocation |-> TRUE,  x |-> Undefined,     y |-> Num(455200), score |-> Num(1000)],
      [hasLocation |-> FALSE, x |-> Undefined,     y |-> Undefined,   score |-> Num(1000)] }

GeoCandidates == WellFormedCandidates \cup MalformedCandidates

\* What a geocoder fetch can settle with.
GeocoderResponses ==
    {NetworkError, HttpError(503), BadJson, Json(<<>>)}
        \cup {Json(<<c>>) : c \in GeoCandidates}

\* A rejected fetch, an empty list and the located candidates.
FewResponses ==
    {NetworkError, Json(<<>>)} \cup {Json(<<c>>) : c \in WellFormedCandidates}

\* The geocoder responses explored for a request with n suggestions: every
\* response for up to two suggestions; for longer lists a failure, an empty
\* list and the matches.
GeocoderResponsesFor(n) ==
    IF n <= 2 THEN GeocoderResponses ELSE FewResponses

\* The k-th record of the suggestion service (PropertySuggestion): labels
\* are distinct, every second record has an empty value.
Suggestion(k) ==
    [label |-> k, value |-> IF k % 2 = 1 THEN "R" ELSE "", type |-> "address"]
SuggestionList(n) == [k \in 1..n |-> Suggestion(k)]

SuggestResponses ==
    {NetworkError, HttpError(503), BadJson, NoCandidatesField}
        \cup {Json(SuggestionList(n)) : n \in 0..MaxSuggestions}

\* Arguments of resolveAddress: bbox is <<>> when the caller passes none.
Bbox == <<-1227000, 455000, -1226800, 456000>>
Queries == {"1234 SW Main St"}
MaxResultsChoices == {1, 2}
BboxChoices == {<<>>, Bbox}

NoArgs == [query |-> "", maxResults |-> 0, bbox |-> <<>>, includeRaw |-> FALSE]
NoResult ==
    [outcome |-> "none", candidates |-> <<>>, query |-> "", max_results |-> 0,
     bbox |-> <<>>, message |-> ""]

------------------------------------------------------------------------------
\* The CallTool handler.  The arguments of a tool call as the caller sent
\* them: max_results and include_raw are <<>> when omitted, bbox is <<>> when
\* omitted.
Arguments(q, m, b, raw) ==
    [query |-> q, max_results |-> m, bbox |-> b, include_raw |-> raw, address |-> ""]
AddressArguments(address) ==
    [query |-> "", max_results |-> <<>>, bbox |-> <<>>, include_raw |-> <<>>,
     address |-> address]
NoCall == [name |-> "", arguments |-> AddressArguments("")]

\* resolve_address calls within the inputSchema: every combination of the
\* argument choices with include_raw omitted or true, and one call that
\* omits max_results and passes include_raw false.
ValidArguments ==
    {Arguments(q, <<m>>, b, raw) :
        q \in Queries, m \in MaxResultsChoices, b \in BboxChoices, raw \in {<<>>, <<TRUE>>}}
        \cup {Arguments("1234 SW Main St", <<>>, <<>>, <<FALSE>>)}

\* resolve_address calls the inputSchema excludes: a query of two
\* characters, max_results above 25, a bbox of three numbers.
InvalidArguments ==
    { Arguments("ab", <<1>>, <<>>, <<>>),
      Arguments("1234 SW Main St", <<26>>, <<>>, <<>>),
      Arguments("1234 SW Main St", <<1>>, <<-1227000, 455000, -1226800>>, <<>>) }

ResolveArguments == ValidArguments \cup InvalidArguments

\* The tools whose case is `await this.client.get...(address)`.
FormattingTools ==
    {"get_property_info", "get_zoning_info", "get_permit_history", "get_tax_info"}
UnknownTools == {"search_property"}

\* Destructure with include_raw defaulting to true.
Destructure_RawTrue(a) ==
    [query |-> a.query,
     maxResults |-> IF a.max_results = <<>> THEN 10 ELSE a.max_results[1],
     bbox |-> a.bbox,
     includeRaw |-> IF a.include_raw = <<>> THEN TRUE ELSE a.include_raw[1]]

\* const { query, max_results = 10, bbox, include_raw = false } = args
Destructure(a) ==
    [query |-> a.query,
     maxResults |-> IF a.max_results = <<>> THEN 10 ELSE a.max_results[1],
     bbox |-> a.bbox,
     includeRaw |-> IF a.include_raw = <<>> THEN FALSE ELSE a.include_raw[1]]

\* What the handler returned: how many responses, isError, and the text (a
\* JSON text, a client text or an error text; with or without the
\* disclaimer block of addDisclaimer).
NoToolResponse ==
    [count |-> 0, isError |-> FALSE, kind |-> "none", message |-> "",
     disclaimer |-> FALSE]

\* ErrorResponse without isError.
ErrorResponse_NoFlag(message) ==
    [count |-> 1, isError |-> FALSE, kind |-> "error",
     message |-> "Error: " \o message, disclaimer |-> FALSE]

\* The catch of the handler: text `Error: ${errorMessage}`, isError true.
ErrorResponse(message) ==
    [count |-> 1, isError |-> TRUE, kind |-> "error",
     message |-> "Error: " \o message, disclaimer |-> FALSE]

\* The resolve_address case: text JSON.stringify(result, null, 2).
JsonResponse ==
    [count |-> 1, isError |-> FALSE, kind |-> "json", message |-> "",
     disclaimer |-> FALSE]

\* addDisclaimer(data): data followed by the disclaimer block.
AddDisclaimer(data) == [data EXCEPT !.disclaimer = TRUE]

\* What getPropertyInfo, getZoningInfo, getPermitHistory and
\* getPropertyTaxInfo return for the suggestions found.
InfoText(list) ==
    AddDisclaimer([count |-> 1, isError |-> FALSE, kind |-> "text",
                   message |-> IF Len(list) = 0 THEN "No results found for address"
                               ELSE "Information for",
                   disclaimer |-> FALSE])

\* The prefix the catch of each client method puts before the message.
FailurePrefix(name) ==
    IF name = "get_property_info" THEN "Failed to get property info: "
    ELSE IF name = "get_zoning_info" THEN "Failed to get zoning info: "
    ELSE IF name = "get_permit_history" THEN "Failed to get permit history: "
    ELSE IF name = "get_tax_info" THEN "Failed to get property tax info: "
    ELSE "Failed to resolve address: "

\* A request slot no tool call has arrived in: the tool called, where its
\* handler is, the fetch each suggestion's callback awaits, and its answer.
NoRequest == [tool |-> "", pc |-> "none", tier |-> <<>>, answer |-> "none"]

------------------------------------------------------------------------------
VARIABLES
    pc,           \* where the tool call is: idle, suggest, enrich, done, error,
                  \* and search, answered for the formatting tools
    args,         \* the arguments of resolveAddress
    suggestions,  \* const suggestions = data.candidates || []
    tier,         \* per suggestion: the fetch its callback awaits, or settled
    region,       \* per suggestion: what the Oregon geocoder fetch settled with
    world,        \* per suggestion: what the world geocoder fetch settled with
    regionCalls,  \* per suggestion: fetches issued to the Oregon geocoder
    worldCalls,   \* per suggestion: fetches issued to the world geocoder
    promises,     \* candidatePromises: <<>> while pending, <<candidate>> fulfilled
    inverted,     \* some promise was fulfilled before one of a lower index
    result,       \* what resolveAddress returned or threw
    enrichCase,   \* one application of the per-suggestion callback body
    call,         \* request.params of the tool call: name and arguments
    suggest,      \* what the fetch of the suggestion endpoint settled with
    suggestCalls, \* fetches issued to the suggestion endpoint for the call
    response,     \* what the handler returned for the call
    served,       \* the server received a tool call before the current one
    requests      \* tool requests in flight at once: tool, position, awaited fetches

vars == <<pc, args, suggestions, tier, region, world, regionCalls, worldCalls,
          promises, inverted, result, enrichCase, call, suggest, suggestCalls,
          response, served, requests>>

N == Len(suggestions)

NoCase ==
    [phase |-> "none", suggestion |-> Suggestion(1), index |-> 0,
     geocodeResult |-> Null, includeRaw |-> FALSE, out |-> <<>>]

Idle ==
    /\ pc = "idle"
    /\ args = NoArgs
    /\ suggestions = <<>>
    /\ tier = <<>>
    /\ region = <<>>
    /\ world = <<>>
    /\ regionCalls = <<>>
    /\ worldCalls = <<>>
    /\ promises = <<>>
    /\ inverted = FALSE
    /\ result = NoResult
    /\ call = NoCall
    /\ suggest = NoResponse
    /\ suggestCalls = 0
    /\ response = NoToolResponse
    /\ served = FALSE
    /\ requests = [r \in 1..MaxRequests |-> NoRequest]

Init ==
    /\ Idle
    /\ enrichCase = NoCase

\* The locals of a call that has not reached resolveAddress's map.
Fresh ==
    /\ suggestions' = <<>>
    /\ tier' = <<>>
    /\ region' = <<>>
    /\ world' = <<>>
    /\ regionCalls' = <<>>
    /\ worldCalls' = <<>>
    /\ promises' = <<>>
    /\ inverted' = FALSE
    /\ result' = NoResult
    /\ suggest' = NoResponse

\* A resolve_address tool call arrives: the handler destructures the
\* arguments and calls resolveAddress, which runs up to `await fetch(url)`
\* of the suggestion endpoint.  Everything of the call is local to it.
CallResolveAddress ==
    /\ pc \in {"idle", "done", "error", "answered"}
    /\ \E a \in ResolveArguments :
          /\ call' = [name |-> "resolve_address", arguments |-> a]
          /\ args' = Destructure(a)
    /\ pc' = "suggest"
    /\ suggestCalls' = 1
    /\ response' = NoToolResponse
    /\ Fresh
    /\ served' = (pc # "idle")
    /\ UNCHANGED <<enrichCase, requests>>

\* A tool call for one of the formatting tools arrives: the client method
\* calls searchAddress, which runs up to its `await fetch(url)`.
CallFormattingTool ==
    /\ pc \in {"idle", "done", "error", "answered"}
    /\ \E name \in FormattingTools, q \in Queries :
          call' = [name |-> name, arguments |-> AddressArguments(q)]
    /\ args' = NoArgs
    /\ pc' = "search"
    /\ suggestCalls' = 1
    /\ response' = NoToolResponse
    /\ Fresh
    /\ served' = (pc # "idle")
    /\ UNCHANGED <<enrichCase, requests>>

\* A tool call names no case of the switch: the default throws and the
\* catch of the handler answers.
CallUnknownTool ==
    /\ pc \in {"idle", "done", "error", "answered"}
    /\ \E name \in UnknownTools :
          /\ call' = [name |-> name, arguments |-> AddressArguments("1234 SW Main St")]
          /\ Fresh
          /\ response' = ErrorResponse("Unknown tool: " \o name)
    /\ args' = NoArgs
    /\ pc' = "error"
    /\ suggestCalls' = 0
    /\ served' = (pc # "idle")
    /\ UNCHANGED <<enrichCase, requests>>

\* The message of the Error the try-block of resolveAddress raises on r.
SuggestError(r) ==
    IF r.net = "error" THEN "fetch failed"
    ELSE IF ~ResponseOk(r) THEN "API request failed"
    ELSE "Unexpected token"

\* Throws whose catch returns an empty result instead of rethrowing.
Throws_ReturnsEmpty(message) ==
    /\ pc' = "done"
    /\ result' = [NoResult EXCEPT !.outcome = "ok"]
    /\ response' = JsonResponse

\* resolveAddress throws: its catch wraps the message and the catch of the
\* handler answers with it.
Throws(message) ==
    /\ pc' = "error"
    /\ result' = [NoResult EXCEPT !.outcome = "error",
                     !.message = "Failed to resolve address: " \o message]
    /\ response' = ErrorResponse("Failed to resolve address: " \o message)

\* Suggestions with a placeholder record when the body has no candidates.
Suggestions_Placeholder(r) ==
    IF r.hasCandidates THEN r.candidates ELSE <<Suggestion(1)>>

\* Suggestions cut to maxResults before the callbacks run.
Suggestions_CutFirst(r) ==
    Slice(IF r.hasCandidates THEN r.candidates ELSE <<>>, args.maxResults)

\* const suggestions = data.candidates || []
Suggestions(r) == IF r.hasCandidates THEN r.candidates ELSE <<>>

\* The suggestion fetch settles.  A rejection, a non-2xx status or a body
\* that does not parse ends in the catch, which rethrows.  Otherwise
\* suggestions.map runs every callback up to its first await: each computes
\* its baseScore and calls geocodeWithArcGIS, which issues its fetch.
SuggestResponds ==
    /\ pc = "suggest"
    /\ \E r \in SuggestResponses :
          /\ suggest' = r
          /\ IF r.net = "error" \/ ~ResponseOk(r) \/ ~r.parses
             THEN /\ Throws(SuggestError(r))
                  /\ UNCHANGED <<suggestions, tier, region, world, regionCalls,
                                 worldCalls, promises>>
             ELSE LET list == Suggestions(r)
                      n == Len(list)
                  IN  /\ pc' = "enrich"
                      /\ suggestions' = list
                      /\ tier' = [i \in 1..n |-> "region"]
                      /\ region' = [i \in 1..n |-> NoResponse]
                      /\ world' = [i \in 1..n |-> NoResponse]
                      /\ regionCalls' = [i \in 1..n |-> 1]
                      /\ worldCalls' = [i \in 1..n |-> 0]
                      /\ promises' = [i \in 1..n |-> <<>>]
                      /\ UNCHANGED <<result, response>>
    /\ UNCHANGED <<args, inverted, enrichCase, call, suggestCalls, served, requests>>

\* The fetch of searchAddress settles for a formatting tool: a failure is
\* rethrown by searchAddress and by the client method and answered by the
\* catch of the handler; otherwise the text of the client method is returned.
SearchResponds ==
    /\ pc = "search"
    /\ \E r \in SuggestResponses :
          /\ suggest' = r
          /\ IF r.net = "error" \/ ~ResponseOk(r) \/ ~r.parses
             THEN /\ pc' = "error"
                  /\ response' = ErrorResponse(FailurePrefix(call.name)
                                    \o "Failed to search address: " \o SuggestError(r))
             ELSE /\ pc' = "answered"
                  /\ response' = InfoText(IF r.hasCandidates THEN r.candidates ELSE <<>>)
    /\ UNCHANGED <<args, suggestions, tier, region, world, regionCalls, worldCalls,
                   promises, inverted, result, enrichCase, call, suggestCalls, served, requests>>

\* Fulfil sharing one failure flag among the callbacks: a suggestion whose
\* sibling has fallen through to the world tier is built without its match.
Fulfil_SharedFailure(i, geocodeResult) ==
    /\ promises' = [promises EXCEPT
                      ![i] = <<Enrich(suggestions[i], i - 1,
                                      IF \E j \in 1..N : j # i /\ tier[j] = "world"
                                      THEN Null ELSE geocodeResult,
                                      args.includeRaw)>>]
    /\ tier' = [tier EXCEPT ![i] = "settled"]
    /\ inverted' = (inverted \/ \E j \in 1..(i - 1) : promises[j] = <<>>)

\* Fulfil taking the position from the number of promises fulfilled so far.
Fulfil_CompletionOrder(i, geocodeResult) ==
    /\ promises' = [promises EXCEPT
                      ![i] = <<Enrich(suggestions[i],
                                      Cardinality({j \in 1..N : promises[j] # <<>>}),
                                      geocodeResult, args.includeRaw)>>]
    /\ tier' = [tier EXCEPT ![i] = "settled"]
    /\ inverted' = (inverted \/ \E j \in 1..(i - 1) : promises[j] = <<>>)

\* Callback i resumes with geocodeResult and fulfils its promise.
Fulfil(i, geocodeResult) ==
    /\ promises' = [promises EXCEPT
                      ![i] = <<Enrich(suggestions[i], i - 1, geocodeResult, args.includeRaw)>>]
    /\ tier' = [tier EXCEPT ![i] = "settled"]
    /\ inverted' = (inverted \/ \E j \in 1..(i - 1) : promises[j] = <<>>)

\* RegionResponds that fetches the Oregon geocoder again until it matches
\* and never falls through (the count of fetches is kept up to 3).
RegionResponds_RetryUntilMatch(i) ==
    /\ pc = "enrich"
    /\ tier[i] = "region"
    /\ \E r \in GeocoderResponsesFor(N) :
          /\ region' = [region EXCEPT ![i] = r]
          /\ IF Extract(r).how = "match"
             THEN /\ Fulfil(i, Extract(r).res)
                  /\ UNCHANGED regionCalls
             ELSE /\ regionCalls' = [regionCalls EXCEPT ![i] = Min(@ + 1, 3)]
                  /\ UNCHANGED <<tier, promises, inverted>>
    /\ UNCHANGED <<pc, args, suggestions, world, worldCalls, result, enrichCase,
                   call, suggest, suggestCalls, response, served, requests>>

\* RegionResponds that tries the Oregon geocoder a second time before it
\* falls through to the world geocoder.
RegionResponds_Retry(i) ==
    /\ pc = "enrich"
    /\ tier[i] = "region"
    /\ \E r \in GeocoderResponsesFor(N) :
          /\ region' = [region EXCEPT ![i] = r]
          /\ IF Extract(r).how = "match"
             THEN /\ Fulfil(i, Extract(r).res)
                  /\ UNCHANGED <<regionCalls, worldCalls>>
             ELSE IF regionCalls[i] < 2
             THEN /\ regionCalls' = [regionCalls EXCEPT ![i] = @ + 1]
                  /\ UNCHANGED <<tier, worldCalls, promises, inverted>>
             ELSE /\ tier' = [tier EXCEPT ![i] = "world"]
                  /\ worldCalls' = [worldCalls EXCEPT ![i] = @ + 1]
                  /\ UNCHANGED <<regionCalls, promises, inverted>>
    /\ UNCHANGED <<pc, args, suggestions, world, result, enrichCase,
                   call, suggest, suggestCalls, response, served, requests>>

\* RegionResponds that calls geocodeWithWorldGeocoder without returning its
\* promise: the callback resumes with null while the world fetch is in flight.
RegionResponds_NoAwait(i) ==
    /\ pc = "enrich"
    /\ tier[i] = "region"
    /\ \E r \in GeocoderResponsesFor(N) :
          /\ region' = [region EXCEPT ![i] = r]
          /\ IF Extract(r).how = "match"
             THEN /\ Fulfil(i, Extract(r).res)
                  /\ UNCHANGED worldCalls
             ELSE /\ promises' = [promises EXCEPT
                                    ![i] = <<Enrich(suggestions[i], i - 1, Null, args.includeRaw)>>]
                  /\ tier' = [tier EXCEPT ![i] = "world"]
                  /\ worldCalls' = [worldCalls EXCEPT ![i] = @ + 1]
                  /\ UNCHANGED inverted
    /\ UNCHANGED <<pc, args, suggestions, world, regionCalls, result, enrichCase,
                   call, suggest, suggestCalls, response, served, requests>>

\* geocodeWithArcGIS of suggestion i resumes: a match is returned to the
\* callback; !response.ok, no candidates and the catch all call
\* geocodeWithWorldGeocoder, which issues its fetch.
RegionResponds(i) ==
    /\ pc = "enrich"
    /\ tier[i] = "region"
    /\ \E r \in GeocoderResponsesFor(N) :
          /\ region' = [region EXCEPT ![i] = r]
          /\ IF Extract(r).how = "match"
             THEN /\ Fulfil(i, Extract(r).res)
                  /\ UNCHANGED worldCalls
             ELSE /\ tier' = [tier EXCEPT ![i] = "world"]
                  /\ worldCalls' = [worldCalls EXCEPT ![i] = @ + 1]
                  /\ UNCHANGED <<promises, inverted>>
    /\ UNCHANGED <<pc, args, suggestions, world, regionCalls, result, enrichCase,
                   call, suggest, suggestCalls, response, served, requests>>

\* WorldSettles with the fetch outside the try: a network error rejects.
WorldSettles_FetchOutsideTry(r) ==
    [rejected |-> r.net = "error", res |-> Extract(r).res]

\* WorldSettles whose catch rethrows.
WorldSettles_Rethrow(r) ==
    [rejected |-> Extract(r).how = "throw", res |-> Extract(r).res]

\* What the promise of geocodeWithWorldGeocoder settles with: its catch logs
\* and returns null, so it is never rejected.
WorldSettles(r) == [rejected |-> FALSE, res |-> Extract(r).res]

\* geocodeWithWorldGeocoder of suggestion i resumes: a match or null is
\* returned through geocodeWithArcGIS to the callback.  A rejection would
\* reject the callback's promise and Promise.all, and end in the catch of
\* resolveAddress.
WorldResponds(i) ==
    /\ pc = "enrich"
    /\ tier[i] = "world"
    /\ \E r \in GeocoderResponsesFor(N) :
          /\ world' = [world EXCEPT ![i] = r]
          /\ IF WorldSettles(r).rejected
             THEN /\ Throws("geocoder error")
                  /\ tier' = [tier EXCEPT ![i] = "rejected"]
                  /\ UNCHANGED <<promises, inverted>>
             ELSE /\ Fulfil(i, WorldSettles(r).res)
                  /\ UNCHANGED <<pc, result, response>>
    /\ UNCHANGED <<args, suggestions, region, regionCalls, worldCalls, enrichCase,
                   call, suggest, suggestCalls, served, requests>>

\* The array `await Promise.all(candidatePromises)` resolves to.
PromiseAll(ps) == [i \in 1..Len(ps) |-> ps[i][1]]

\* resolveAddress resumes after Promise.all: filter, slice, return; the
\* handler returns the result as JSON text.
Join ==
    /\ pc = "enrich"
    /\ \A i \in 1..N : promises[i] # <<>>
    /\ pc' = "done"
    /\ result' = [outcome |-> "ok",
                  candidates |-> Finish(PromiseAll(promises), args.bbox, args.maxResults),
                  query |-> args.query,
                  max_results |-> args.maxResults,
                  bbox |-> args.bbox,
                  message |-> ""]
    /\ response' = JsonResponse
    /\ UNCHANGED <<args, suggestions, tier, region, world, regionCalls, worldCalls,
                   promises, inverted, enrichCase, call, suggest, suggestCalls, served, requests>>

Next ==
    \/ CallResolveAddress
    \/ CallFormattingTool
    \/ CallUnknownTool
    \/ SuggestResponds
    \/ SearchResponds
    \/ \E i \in 1..N : RegionResponds(i)
    \/ \E i \in 1..N : WorldResponds(i)
    \/ Join

Spec == Init /\ [][Next]_vars

------------------------------------------------------------------------------
\* One resolve_address call from arrival to its answer, under the assumption
\* that every fetch issued eventually settles and every continuation that
\* can run eventually runs.

\* The first tool call the server receives is a resolve_address call.
FirstCall == pc = "idle" /\ CallResolveAddress

NextCall ==
    \/ FirstCall
    \/ SuggestResponds
    \/ \E i \in 1..N : RegionResponds(i)
    \/ \E i \in 1..N : WorldResponds(i)
    \/ Join

\* The suggestion fetch settles; each geocoder fetch issued settles; the
\* continuation after Promise.all runs once every promise is fulfilled.
Completes ==
    /\ WF_vars(SuggestResponds)
    /\ \A i \in 1..MaxSuggestions : WF_vars(i <= N /\ RegionResponds(i))
    /\ \A i \in 1..MaxSuggestions : WF_vars(i <= N /\ WorldResponds(i))
    /\ WF_vars(Join)

SpecCall == Init /\ [][NextCall]_vars /\ Completes

------------------------------------------------------------------------------
\* Several tool requests in flight at once.  The handler is an async
\* function: each request runs from one await to the next, and between two
\* awaits of one request the steps of the others may run.  No variable of
\* the handler or of the client is shared between requests, so each request
\* is its own copy of the positions above; the candidates are left out.
\* One tool name for each kind of case of the handler's switch.
Tools == {"resolve_address", "get_property_info"} \cup UnknownTools

\* How the try block of a geocoder method can end, over every response.
Outcomes == {Extract(r).how : r \in GeocoderResponses}

\* Whether the suggestion fetch ends in the catch, and the number of
\* suggestions otherwise, over every response.
Lookups ==
    {IF r.net = "error" \/ ~ResponseOk(r) \/ ~r.parses THEN -1 ELSE Len(Suggestions(r)) :
        r \in SuggestResponses}

InFlight(q) == requests[q].pc \in {"suggest", "search", "enrich"}
Answered(q) == requests[q].pc \in {"done", "answered", "error"}

\* Everything but the requests.
single == <<pc, args, suggestions, tier, region, world, regionCalls, worldCalls,
            promises, inverted, result, enrichCase, call, suggest, suggestCalls,
            response, served>>

\* The transport delivers a tool call in slot q.
ReqReceive(q) ==
    /\ requests[q].pc = "none"
    /\ \E tool \in Tools :
          requests' = [requests EXCEPT ![q] = [@ EXCEPT !.tool = tool, !.pc = "received"]]
    /\ UNCHANGED single

\* ReqHandle behind a lock: the handler starts only when no other request
\* is between two awaits.
ReqHandle_Serial(q) ==
    /\ requests[q].pc = "received"
    /\ \A o \in 1..MaxRequests : o # q => ~InFlight(o)
    /\ requests' = [requests EXCEPT ![q] =
          IF @.tool = "resolve_address" THEN [@ EXCEPT !.pc = "suggest"]
          ELSE IF @.tool \in FormattingTools THEN [@ EXCEPT !.pc = "search"]
          ELSE [@ EXCEPT !.pc = "error", !.answer = "error"]]
    /\ UNCHANGED single

\* The handler of request q runs up to its first await: the suggestion
\* fetch of resolveAddress or of searchAddress; an unknown tool name is
\* answered from the catch at once.
ReqHandle(q) ==
    /\ requests[q].pc = "received"
    /\ requests' = [requests EXCEPT ![q] =
          IF @.tool = "resolve_address" THEN [@ EXCEPT !.pc = "suggest"]
          ELSE IF @.tool \in FormattingTools THEN [@ EXCEPT !.pc = "search"]
          ELSE [@ EXCEPT !.pc = "error", !.answer = "error"]]
    /\ UNCHANGED single

\* The suggestion fetch of request q settles: the catch answers a failure,
\* otherwise every callback issues its region geocoder fetch.
ReqSuggest(q) ==
    /\ requests[q].pc = "suggest"
    /\ \E n \in Lookups :
          requests' = [requests EXCEPT ![q] =
              IF n < 0
              THEN [@ EXCEPT !.pc = "error", !.answer = "error"]
              ELSE [@ EXCEPT !.pc = "enrich", !.tier = [i \in 1..n |-> "region"]]]
    /\ UNCHANGED single

\* The fetch of searchAddress of request q settles.
ReqSearch(q) ==
    /\ requests[q].pc = "search"
    /\ \E n \in Lookups :
          requests' = [requests EXCEPT ![q] =
              IF n < 0
              THEN [@ EXCEPT !.pc = "error", !.answer = "error"]
              ELSE [@ EXCEPT !.pc = "answered", !.answer = "text"]]
    /\ UNCHANGED single

\* The region geocoder fetch of suggestion i of request q settles.
ReqRegion(q, i) ==
    /\ requests[q].pc = "enrich"
    /\ requests[q].tier[i] = "region"
    /\ \E how \in Outcomes :
          requests' = [requests EXCEPT ![q].tier[i] =
              IF how = "match" THEN "settled" ELSE "world"]
    /\ UNCHANGED single

\* The world geocoder fetch of suggestion i of request q settles.
ReqWorld(q, i) ==
    /\ requests[q].pc = "enrich"
    /\ requests[q].tier[i] = "world"
    /\ requests' = [requests EXCEPT ![q].tier[i] = "settled"]
    /\ UNCHANGED single

\* Request q resumes after Promise.all and is answered with its result; the
\* promises of the call are dropped with its frame.
ReqJoin(q) ==
    /\ requests[q].pc = "enrich"
    /\ \A i \in DOMAIN requests[q].tier : requests[q].tier[i] = "settled"
    /\ requests' = [requests EXCEPT ![q] =
          [@ EXCEPT !.pc = "done", !.answer = "json", !.tier = <<>>]]
    /\ UNCHANGED single

\* A step of the handler of request q after the request was received.
ReqStep(q) ==
    \/ ReqHandle(q)
    \/ ReqSuggest(q)
    \/ ReqSearch(q)
    \/ \E i \in DOMAIN requests[q].tier : ReqRegion(q, i)
    \/ \E i \in DOMAIN requests[q].tier : ReqWorld(q, i)
    \/ ReqJoin(q)

NextRequests ==
    \E q \in 1..MaxRequests : ReqReceive(q) \/ ReqStep(q)

\* The fetches of request 1 may take for ever.  Every other request keeps
\* moving: a fetch it awaits settles, or a continuation of it that can run
\* runs.
SlowGeocoder == \A q \in 2..MaxRequests : WF_vars(ReqStep(q))

SpecRequests == Init /\ [][NextRequests]_vars /\ SlowGeocoder

------------------------------------------------------------------------------
\* The per-suggestion callback body on its own, over every position a list
\* of up to MaxIndex + 1 suggestions has and over geocoder scores 0.0, 0.5,
\* ..., 100.0.
MatchScores == {5 * k : k \in 0..200}

GeocodeResults ==
    {Null}
        \cup {Match(c) : c \in {d \in GeoCandidates : d.hasLocation}}
        \cup {[found |-> TRUE, x |-> Num(-1227000), y |-> Num(455200), score |-> Num(m)] :
                 m \in MatchScores}

InitEnrich ==
    /\ Idle
    /\ \E k \in 1..2, index \in 0..MaxIndex, g \in GeocodeResults, raw \in BOOLEAN :
          enrichCase = [phase |-> "input", suggestion |-> Suggestion(k), index |-> index,
                        geocodeResult |-> g, includeRaw |-> raw, out |-> <<>>]

\* The callback resumes with geocodeResult and builds its candidate.
EnrichStep ==
    /\ enrichCase.phase = "input"
    /\ enrichCase' = [enrichCase EXCEPT
                        !.phase = "output",
                        !.out = <<Enrich(enrichCase.suggestion, enrichCase.index,
                                         enrichCase.geocodeResult, enrichCase.includeRaw)>>]
    /\ UNCHANGED <<pc, args, suggestions, tier, region, world, regionCalls, worldCalls,
                   promises, inverted, result, call, suggest, suggestCalls, response,
                   served, requests>>

NextEnrich == EnrichStep

SpecEnrich == InitEnrich /\ [][NextEnrich]_vars

------------------------------------------------------------------------------
\* Vocabulary of the properties, over the responses the fetches settled with.

\* The fetch settled with a 2xx response whose body lists >= 1 candidate.
ListsCandidate(r) ==
    /\ r.net = "ok" /\ r.status \in 200..299 /\ r.parses
    /\ r.hasCandidates /\ Len(r.candidates) >= 1

\* ... and the first candidate listed carries a location object.
ListsLocatedCandidate(r) == ListsCandidate(r) /\ r.candidates[1].hasLocation

Settled(r) == r.net # "pending"

\* The candidate promise i was fulfilled with, and whether it has one.
Fulfilled(i) == promises[i] # <<>>
Candidate(i) == promises[i][1]

\* The candidates resolveAddress returned.
Returned == IF pc = "done" THEN result.candidates ELSE <<>>

\* P holds of the candidate built for suggestion i, and of every returned
\* candidate built for suggestion i.
HoldsOf(i, P(_)) ==
    /\ P(Candidate(i))
    /\ \A k \in DOMAIN Returned :
          Returned[k].normalized_address = suggestions[i].label => P(Returned[k])

IsReturned(i) ==
    \E k \in DOMAIN Returned : Returned[k].normalized_address = suggestions[i].label

\* C1 (as stated): whenever the region geocoder answered 2xx with at least
\* one candidate for a suggestion, the world geocoder is not called for it.
C1_Original ==
    \A i \in 1..N : ListsCandidate(region[i]) => worldCalls[i] = 0

\* C1 (amended): whenever the region geocoder answered 2xx with at least one
\* candidate whose first entry carries a location, the world geocoder is
\* never called for that suggestion and receives no response for it.
C1_ShortCircuit ==
    \A i \in 1..N :
        ListsLocatedCandidate(region[i]) =>
            /\ worldCalls[i] = 0
            /\ world[i] = NoResponse
            /\ tier[i] = "settled"

C1_Witness ==
    /\ pc = "done"
    /\ \E i \in 1..N : ListsLocatedCandidate(region[i]) /\ IsReturned(i)

\* The region tier failed (non-2xx, network error, exception) or was empty.
RegionFailed(i) == Settled(region[i]) /\ ~ListsLocatedCandidate(region[i])

FromWorld(i, c) ==
    /\ c.source = "arcgis_geocoder"
    /\ c.x_lon = world[i].candidates[1].x
    /\ c.y_lat = world[i].candidates[1].y

\* C2 (as stated): when the region tier failed or was empty and the world
\* geocoder then listed at least one candidate, the candidate is tagged
\* arcgis_geocoder and has the world geocoder's location.
C2_Original ==
    \A i \in 1..N :
        Fulfilled(i) /\ RegionFailed(i) /\ ListsCandidate(world[i]) =>
            HoldsOf(i, LAMBDA c : FromWorld(i, c))

\* C2 (amended): when the region tier failed or was empty and the world
\* geocoder then listed at least one candidate whose first entry carries a
\* location, the candidate is tagged arcgis_geocoder and its longitude and
\* latitude are that location's x and y.
C2_WorldMatch ==
    \A i \in 1..N :
        Fulfilled(i) /\ RegionFailed(i) /\ ListsLocatedCandidate(world[i]) =>
            HoldsOf(i, LAMBDA c : FromWorld(i, c))

C2_Witness ==
    /\ pc = "done"
    /\ \E i \in 1..N :
          /\ region[i] = HttpError(503)
          /\ ListsLocatedCandidate(world[i])
          /\ IsNum(world[i].candidates[1].x)
          /\ IsReturned(i)

\* Both tiers settled without a usable match.
BothFailed(i) ==
    /\ Settled(region[i]) /\ ~ListsLocatedCandidate(region[i])
    /\ Settled(world[i]) /\ ~ListsLocatedCandidate(world[i])

AtDefault(i, c) ==
    /\ c.x_lon = Num(-1226765)
    /\ c.y_lat = Num(455155)
    /\ c.score = Num(IF 100 - 5 * (i - 1) >= 50 THEN 100 - 5 * (i - 1) ELSE 50)

\* C3: a suggestion at zero-based position i - 1 for which both tiers failed
\* or found nothing gets exactly the default point and its base score
\* max(100 - 5*(i-1), 50), and the request does not end in an error.
C3_Fallback ==
    \A i \in 1..N :
        BothFailed(i) =>
            /\ Fulfilled(i)
            /\ HoldsOf(i, LAMBDA c : AtDefault(i, c))
            /\ pc # "error"
            /\ pc = "done" => result.outcome = "ok"

C3_Witness ==
    /\ pc = "done"
    /\ result.outcome = "ok"
    /\ N = 2
    /\ \A i \in 1..N : region[i] = HttpError(503) /\ world[i] = HttpError(503)
    /\ Len(result.candidates) = 2

\* C4 (as stated): a candidate is tagged internal_fallback exactly when both
\* tiers failed or found nothing for it.
C4_Claim ==
    \A i \in 1..N :
        Fulfilled(i) =>
            HoldsOf(i, LAMBDA c : (c.source = "internal_fallback") <=> BothFailed(i))

\* C5 (as stated): a candidate is tagged arcgis_geocoder exactly when one of
\* the geocoder calls made for it listed at least one candidate.
C5_Original ==
    \A i \in 1..N :
        Fulfilled(i) =>
            HoldsOf(i, LAMBDA c :
                (c.source = "arcgis_geocoder")
                    <=> (ListsCandidate(region[i]) \/ ListsCandidate(world[i])))

\* C5 (amended): a candidate is tagged arcgis_geocoder exactly when one of
\* the geocoder calls made for it listed at least one candidate whose first
\* entry carries a location.
C5_Provenance ==
    \A i \in 1..N :
        Fulfilled(i) =>
            HoldsOf(i, LAMBDA c :
                (c.source = "arcgis_geocoder")
                    <=> (ListsLocatedCandidate(region[i])
                            \/ ListsLocatedCandidate(world[i])))

C5_Witness ==
    /\ pc = "done"
    /\ Len(result.candidates) = 2
    /\ result.candidates[1].source = "arcgis_geocoder"
    /\ result.candidates[2].source = "portlandmaps_api"
    /\ ListsCandidate(region[2])
    /\ ListsLocatedCandidate(world[1])

\* C6 (as stated): every candidate built or returned has an integer score
\* between 0 and 100.
C6_Claim ==
    \A i \in 1..N :
        Fulfilled(i) =>
            HoldsOf(i, LAMBDA c : IsNum(c.score) /\ c.score.v >= 0 /\ c.score.v <= 100)

\* C7: for a suggestion at zero-based position i whose geocoding found a
\* match with numeric score m, the candidate's score is the integer s
\* nearest to (max(100 - 5*i, 50) + m) / 2, a half going up
\* (s - 1/2 <= (b + m)/2 < s + 1/2, here in tenths), its coordinates are
\* the match's and its source is arcgis_geocoder.
C7_Blend ==
    (enrichCase.phase = "output" /\ enrichCase.geocodeResult.found
        /\ IsNum(enrichCase.geocodeResult.score)) =>
        LET c == enrichCase.out[1]
            i == enrichCase.index
            b == IF 100 - 5 * i >= 50 THEN 100 - 5 * i ELSE 50
            m == enrichCase.geocodeResult.score.v
        IN  /\ IsNum(c.score)
            /\ 20 * c.score.v - 10 <= 10 * b + m
            /\ 10 * b + m < 20 * c.score.v + 10
            /\ c.x_lon = enrichCase.geocodeResult.x
            /\ c.y_lat = enrichCase.geocodeResult.y
            /\ c.source = "arcgis_geocoder"

\* A position where the floor of 50 applies and a sum that ends in a half.
C7_Witness ==
    /\ enrichCase.phase = "output"
    /\ enrichCase.geocodeResult.found
    /\ IsNum(enrichCase.geocodeResult.score)
    /\ enrichCase.index >= 11
    /\ (10 * 50 + enrichCase.geocodeResult.score.v) % 20 = 10

\* The position in the suggestion list of the suggestion a candidate was
\* built from (labels are distinct).
Position(c) == CHOOSE i \in 1..N : suggestions[i].label = c.normalized_address

\* C8: the returned candidates are candidates built from the suggestions, in
\* the suggestions' relative order, whatever order the promises were
\* fulfilled in and whatever the scores.
C8_Order ==
    pc = "done" =>
        /\ \A k \in DOMAIN Returned :
              /\ \E i \in 1..N : suggestions[i].label = Returned[k].normalized_address
              /\ Returned[k] = Candidate(Position(Returned[k]))
        /\ \A k, l \in DOMAIN Returned :
              k < l => Position(Returned[k]) < Position(Returned[l])

\* Returned in list order although the later promise was fulfilled first and
\* the later candidate scores higher.
C8_Witness ==
    /\ pc = "done"
    /\ inverted
    /\ Len(result.candidates) = 2
    /\ IsNum(result.candidates[1].score) /\ IsNum(result.candidates[2].score)
    /\ result.candidates[1].score.v < result.candidates[2].score.v

\* Inside the rectangle the caller passed, bounds included.
Inside(c) ==
    /\ IsNum(c.x_lon) /\ IsNum(c.y_lat)
    /\ args.bbox[1] <= c.x_lon.v /\ c.x_lon.v <= args.bbox[3]
    /\ args.bbox[2] <= c.y_lat.v /\ c.y_lat.v <= args.bbox[4]

\* C9: with a four-element bbox every returned candidate lies inside the
\* rectangle (bounds included) and no candidate built outside it is
\* returned, candidates at the default point included.
C9_Bbox ==
    (pc = "done" /\ Len(args.bbox) = 4) =>
        /\ \A k \in DOMAIN Returned : Inside(Returned[k])
        /\ \A i \in 1..N : ~Inside(Candidate(i)) => ~IsReturned(i)

\* A candidate on the west edge is returned, one at the default point is not.
C9_Witness ==
    /\ pc = "done"
    /\ Len(args.bbox) = 4
    /\ \E i, j \in 1..N :
          /\ BothFailed(i) /\ ~IsReturned(i)
          /\ IsReturned(j) /\ Candidate(j).x_lon = Num(args.bbox[1])

\* The candidates built, in suggestion order, and those the optional bbox keeps.
Enriched == [i \in 1..N |-> Candidate(i)]
Kept == IF Len(args.bbox) = 4 THEN SelectSeq(Enriched, Inside) ELSE Enriched

\* C10: the returned list is exactly the first min(max_results, |F|)
\* elements of F, the built candidates that pass the optional bbox filter; in
\* particular it is empty, without an error, when the bbox excludes them all.
C10_TruncateAfterFilter ==
    pc = "done" =>
        /\ result.outcome = "ok"
        /\ Len(result.candidates) =
              (IF args.maxResults <= Len(Kept) THEN args.maxResults ELSE Len(Kept))
        /\ \A k \in DOMAIN result.candidates : result.candidates[k] = Kept[k]

\* max_results = 1, the first candidate is outside the bbox, the second
\* inside: the second is returned.
C10_Witness ==
    /\ pc = "done"
    /\ args.maxResults = 1
    /\ Len(args.bbox) = 4
    /\ N = 2
    /\ ~Inside(Candidate(1))
    /\ Inside(Candidate(2))
    /\ result.candidates = <<Candidate(2)>>

------------------------------------------------------------------------------
\* Vocabulary of the tool-call claims.
Resolving == call.name = "resolve_address"

\* The suggestion fetch settled with a 2xx response whose body parsed.
SuggestionsArrived ==
    Settled(suggest) /\ ResponseOk(suggest) /\ suggest.parses

\* The geocoder fetch settled without a usable body: rejected, non-2xx, or
\* a body whose read threw.
Failed(r) == r.net = "error" \/ (r.net = "ok" /\ ~ResponseOk(r)) \/ Extract(r).how = "throw"

\* C11: once the suggestion service has answered a resolve_address call with
\* a suggestion list, no geocoder outcome at either tier makes the call fail:
\* no callback promise is rejected, the call is not answered with an error,
\* and when it completes it returns a result list with one candidate built
\* per suggestion.
C11_GeocodingNeverFatal ==
    (Resolving /\ SuggestionsArrived) =>
        /\ pc \in {"enrich", "done"}
        /\ \A i \in 1..N : tier[i] # "rejected"
        /\ result.outcome # "error"
        /\ ~response.isError
        /\ pc = "done" =>
              /\ result.outcome = "ok"
              /\ \A i \in 1..N : Fulfilled(i)

C11_Witness ==
    /\ Resolving
    /\ pc = "done"
    /\ result.outcome = "ok"
    /\ N = 2
    /\ region[1] = NetworkError
    /\ Extract(world[1]).how = "throw"
    /\ region[2] = HttpError(503)
    /\ world[2] = Json(<<>>)
    /\ Len(result.candidates) = 2

C13_Claim ==
    \A k \in DOMAIN Returned :
        IsNum(Returned[k].x_lon) /\ IsNum(Returned[k].y_lat)

\* C14 (as stated): every response the handler returns, for every tool and
\* every outcome, carries the disclaimer block.
C14_Claim ==
    response.count >= 1 => response.disclaimer

\* C15 (as stated): for a resolve_address call whose arguments violate the
\* inputSchema no suggestion fetch and no geocoder fetch is issued and no
\* candidate list is produced.
C15_Claim ==
    (Resolving /\ call.arguments \in InvalidArguments) =>
        /\ suggestCalls = 0
        /\ N = 0
        /\ result.outcome # "ok"

\* What geocodeWithArcGIS returns to the callback given the responses the
\* two geocoder fetches of a suggestion settled with.
GeocodeOf(r, w) ==
    IF Extract(r).how = "match" THEN Extract(r).res ELSE Extract(w).res

\* The candidate list determined by the arguments of the call and the
\* upstream responses alone.
Determined ==
    LET a == Destructure(call.arguments)
        list == IF suggest.hasCandidates THEN suggest.candidates ELSE <<>>
        built == [i \in 1..Len(list) |->
                    Enrich(list[i], i - 1, GeocodeOf(region[i], world[i]), a.includeRaw)]
    IN  Finish(built, a.bbox, a.maxResults)

C17_RawIffRequested ==
    Resolving =>
        \A i \in 1..N :
            Fulfilled(i) =>
                HoldsOf(i, LAMBDA c :
                    /\ (c.raw # <<>>) <=> (call.arguments.include_raw = <<TRUE>>)
                    /\ c.raw # <<>> => c.raw = <<suggest.candidates[i]>>)

C17_Witness ==
    /\ Resolving
    /\ pc = "done"
    /\ call.arguments.include_raw = <<TRUE>>
    /\ Len(result.candidates) = 2
    /\ result.candidates[1].raw = <<Suggestion(1)>>
    /\ result.candidates[2].raw = <<Suggestion(2)>>

\* C18: for every candidate built or returned, normalized_address is the
\* label of its suggestion, property_id is present exactly when the
\* suggestion's value is non-empty and then equals it, and taxlot_id is
\* absent.
C18_Identity ==
    \A i \in 1..N :
        Fulfilled(i) =>
            HoldsOf(i, LAMBDA c :
                /\ c.normalized_address = suggest.candidates[i].label
                /\ (c.property_id # <<>>) <=> (suggest.candidates[i].value # "")
                /\ c.property_id # <<>> => c.property_id = <<suggest.candidates[i].value>>
                /\ c.taxlot_id = <<>>)

C18_Witness ==
    /\ pc = "done"
    /\ Len(result.candidates) = 2
    /\ suggest.candidates[1].value = "R"
    /\ result.candidates[1].property_id = <<"R">>
    /\ suggest.candidates[2].value = ""
    /\ result.candidates[2].property_id = <<>>
    /\ result.candidates[2].normalized_address = suggest.candidates[2].label

\* The message of the Error that reaches the catch of the handler.
Thrown ==
    IF call.name \in UnknownTools THEN "Unknown tool: " \o call.name
    ELSE IF Resolving THEN result.message
    ELSE FailurePrefix(call.name) \o "Failed to search address: " \o SuggestError(suggest)

\* C19: every tool call is answered with exactly one response; a call that
\* fails (an unknown tool name, or a failed suggestion fetch under any tool)
\* is answered with an isError response whose text is "Error: " followed by
\* the message of the error; an unknown tool name issues no fetch.
C19_ErrorsAnswered ==
    /\ response.count <= 1
    /\ pc \in {"done", "answered", "error"} => response.count = 1
    /\ (Settled(suggest) /\ ~SuggestionsArrived) => pc = "error"
    /\ call.name \in UnknownTools =>
          /\ pc = "error"
          /\ suggestCalls = 0
          /\ N = 0
    /\ pc = "error" =>
          /\ response.isError
          /\ response.kind = "error"
          /\ response.message = "Error: " \o Thrown
    /\ response.isError => pc = "error"

C19_Witness ==
    /\ call.name = "get_zoning_info"
    /\ pc = "error"
    /\ suggest = NetworkError
    /\ response.count = 1
    /\ response.isError
    /\ response.message
          = "Error: Failed to get zoning info: Failed to search address: fetch failed"

\* max(100 - 5*i, 50), written out.
StepFloor(i) == IF 100 - 5 * i >= 50 THEN 100 - 5 * i ELSE 50

\* The callback was applied to a suggestion whose geocoding found nothing:
\* the score of its candidate is the base score of its position.
Unmatched == enrichCase.phase = "output" /\ ~enrichCase.geocodeResult.found

\* C20 (as stated): the base score of a position is strictly below the base
\* score of every earlier position.
C20_Original ==
    Unmatched =>
        \A j \in 0..(enrichCase.index - 1) :
            StepFloor(j) > enrichCase.out[1].score.v

\* C20: the base score of zero-based position i is max(100 - 5*i, 50); it
\* never exceeds the base score of an earlier position, is strictly below it
\* for positions up to 10, and is 50 for every position from 10 on.
C20_BaseScore ==
    Unmatched =>
        LET i == enrichCase.index
            s == enrichCase.out[1].score
        IN  /\ s = Num(StepFloor(i))
            /\ \A j \in 0..(i - 1) :
                  /\ StepFloor(j) >= s.v
                  /\ i <= 10 => StepFloor(j) > s.v
            /\ i >= 10 => s.v = 50
            /\ s.v >= 50 /\ s.v <= 100

\* Position 11 scores 50, as position 10 does.
C20_Witness ==
    /\ Unmatched
    /\ enrichCase.index = 11
    /\ enrichCase.out[1].score = Num(50)
    /\ StepFloor(10) = 50

------------------------------------------------------------------------------
\* Vocabulary of the fan-out and fan-in claims.

\* A geocoder fetch of suggestion i was issued and has not settled.
Outstanding(i) ==
    \/ regionCalls[i] >= 1 /\ ~Settled(region[i])
    \/ worldCalls[i] >= 1 /\ ~Settled(world[i])

\* C21: once the suggestion list of a resolve_address call has arrived, the
\* region geocoder fetch of every suggestion has been issued before any
\* promise is awaited; as long as a geocoder fetch of the call is outstanding
\* nothing has been filtered, cut or returned; and when the result is
\* returned every callback has settled and no fetch is outstanding.
C21_FanOutFanIn ==
    Resolving =>
        /\ pc \in {"enrich", "done"} =>
              /\ Len(regionCalls) = N /\ Len(promises) = N
              /\ \A i \in 1..N : regionCalls[i] >= 1
        /\ (\E i \in 1..N : Outstanding(i)) =>
              /\ pc = "enrich"
              /\ result = NoResult
              /\ response = NoToolResponse
        /\ pc = "done" =>
              \A i \in 1..N : tier[i] = "settled" /\ Fulfilled(i) /\ ~Outstanding(i)

\* Both region fetches are in flight at once; the second settles while the
\* first is still outstanding and nothing is returned.
C21_Witness ==
    /\ Resolving
    /\ pc = "enrich"
    /\ N = 2
    /\ regionCalls = <<1, 1>>
    /\ ~Settled(region[1])
    /\ Fulfilled(2)
    /\ result = NoResult

\* The candidate of suggestion i as its own inputs determine it: its
\* suggestion record, its position, include_raw and the responses its own
\* geocoder fetches settled with.
OwnCandidate(i) ==
    Enrich(suggest.candidates[i], i - 1, GeocodeOf(region[i], world[i]),
           Destructure(call.arguments).includeRaw)

\* C22: at every moment of a resolve_address call, a candidate that has been
\* built equals the candidate its own inputs determine, whatever its
\* siblings' geocoder fetches did or are still doing; so a sibling that fails
\* or stays outstanding changes nothing of it.
C22_SiblingIsolation ==
    (Resolving /\ pc \in {"enrich", "done"}) =>
        \A i \in 1..N :
            Fulfilled(i) => HoldsOf(i, LAMBDA c : c = OwnCandidate(i))

\* The second candidate is built from its own match while the first
\* suggestion's region fetch has failed and its world fetch is outstanding.
C22_Witness ==
    /\ Resolving
    /\ pc = "enrich"
    /\ N = 2
    /\ region[1] = NetworkError
    /\ tier[1] = "world"
    /\ ~Settled(world[1])
    /\ Fulfilled(2)
    /\ Candidate(2).source = "arcgis_geocoder"
    /\ Candidate(2).x_lon = region[2].candidates[1].x

\* The suggestion list a 2xx parsed body gives: data.candidates || [].
Received == IF suggest.hasCandidates THEN suggest.candidates ELSE <<>>

C24_NoRetries ==
    Resolving =>
        /\ suggestCalls = 1
        /\ pc \in {"enrich", "done"} =>
              \A i \in 1..N :
                  /\ regionCalls[i] = 1
                  /\ worldCalls[i] \in {0, 1}
                  /\ worldCalls[i] = 1 =>
                        (Settled(region[i]) /\ Extract(region[i]).how # "match")
                  /\ (Settled(world[i]) \/ tier[i] = "world") => worldCalls[i] = 1
        /\ pc \in {"suggest", "error"} => (regionCalls = <<>> /\ worldCalls = <<>>)

\* Both tiers of the first suggestion failed and were fetched once each; the
\* second suggestion matched at the region tier and has no world fetch.
C24_Witness ==
    /\ Resolving
    /\ pc = "done"
    /\ suggestCalls = 1
    /\ regionCalls = <<1, 1>>
    /\ worldCalls = <<1, 0>>
    /\ region[1] = HttpError(503)
    /\ world[1] = NetworkError
    /\ Extract(region[2]).how = "match"

\* The fetch settled with a 2xx response whose body is malformed: it does
\* not parse, or its first candidate lacks a location, a coordinate of the
\* location, or a score.
MalformedBody(r) ==
    /\ r.net = "ok" /\ ResponseOk(r)
    /\ \/ ~r.parses
       \/ /\ r.hasCandidates /\ Len(r.candidates) >= 1
          /\ LET candidate == r.candidates[1]
             IN  \/ ~candidate.hasLocation
                 \/ ~IsNum(candidate.x)
                 \/ ~IsNum(candidate.y)
                 \/ ~IsNum(candidate.score)

\* C26 (as stated): a malformed body at the region tier makes the suggestion
\* fall through to the world tier, and a malformed body at the world tier
\* yields no match: the candidate stays at the default point with source
\* portlandmaps_api.
C26_Claim ==
    \A i \in 1..N :
        /\ (Settled(region[i]) /\ MalformedBody(region[i])) => worldCalls[i] = 1
        /\ (Settled(world[i]) /\ MalformedBody(world[i]) /\ Fulfilled(i)) =>
              HoldsOf(i, LAMBDA c : c.source = "portlandmaps_api" /\ AtDefault(i, c))

\* C27: when the bbox of a resolve_address call is absent or has not exactly
\* four elements, no candidate is removed by location: the result holds the
\* first max_results built candidates; with four elements every returned
\* candidate lies inside; and the result echoes the query, the effective
\* max_results (10 when omitted) and the bbox as supplied.
C27_BboxFrame ==
    (Resolving /\ pc = "done") =>
        LET a == call.arguments
            effective == IF a.max_results = <<>> THEN 10 ELSE a.max_results[1]
        IN  /\ Len(a.bbox) # 4 => result.candidates = Slice(Enriched, effective)
            /\ Len(a.bbox) = 4 =>
                  \A k \in DOMAIN result.candidates : Inside(result.candidates[k])
            /\ result.query = a.query
            /\ result.max_results = effective
            /\ result.bbox = a.bbox

\* A bbox of three numbers is echoed and filters nothing.
C27_Witness ==
    /\ Resolving
    /\ pc = "done"
    /\ Len(call.arguments.bbox) = 3
    /\ result.bbox = call.arguments.bbox
    /\ N = 2
    /\ result.max_results = 1
    /\ result.candidates = <<Candidate(1)>>
    /\ Candidate(1).source = "arcgis_geocoder"

\* Geocoder fetches the call has issued, over both tiers.
RECURSIVE Sum(_)
Sum(calls) == IF calls = <<>> THEN 0 ELSE Head(calls) + Sum(Tail(calls))

GeocoderCalls == Sum(regionCalls) + Sum(worldCalls)

\* C28: a resolve_address call has issued no geocoder fetch while its
\* suggestion fetch is outstanding, none if that fetch failed, and none if
\* the body lists no suggestion (an empty array or no candidates field); in
\* that last case the call returns an empty candidate list without error.
C28_SuggestFirst ==
    Resolving =>
        /\ ~Settled(suggest) => (pc = "suggest" /\ GeocoderCalls = 0)
        /\ (Settled(suggest) /\ ~SuggestionsArrived) => GeocoderCalls = 0
        /\ GeocoderCalls > 0 => (SuggestionsArrived /\ Len(Received) >= 1)
        /\ (SuggestionsArrived /\ Received = <<>>) =>
              /\ GeocoderCalls = 0
              /\ pc \in {"enrich", "done"}
              /\ ~response.isError
              /\ pc = "done" => (result.outcome = "ok" /\ result.candidates = <<>>)

\* A body without a candidates field: an empty result, no geocoder fetch.
C28_Witness ==
    /\ Resolving
    /\ pc = "done"
    /\ suggest = NoCandidatesField
    /\ GeocoderCalls = 0
    /\ result.outcome = "ok"
    /\ result.candidates = <<>>
    /\ response = JsonResponse

\* C29: every suggestion received is geocoded: once the list has arrived
\* there is exactly one region geocoder fetch per suggestion received, and
\* when the result is returned every one of them has settled and built its
\* candidate, whatever the bbox and max_results removed from the output.
C29_AllGeocoded ==
    (Resolving /\ pc \in {"enrich", "done"}) =>
        /\ N = Len(Received)
        /\ Sum(regionCalls) = Len(Received)
        /\ \A i \in 1..N : regionCalls[i] = 1
        /\ pc = "done" =>
              \A i \in 1..N : Settled(region[i]) /\ Fulfilled(i)

\* Two suggestions geocoded and matched, both removed by the bbox: two
\* region fetches were made and nothing is returned.
C29_Witness ==
    /\ Resolving
    /\ pc = "done"
    /\ Len(Received) = 2
    /\ Sum(regionCalls) = 2
    /\ args.bbox = Bbox
    /\ \A i \in 1..2 : Extract(region[i]).how = "match" /\ ~Inside(Candidate(i))
    /\ result.candidates = <<>>

\* Fetches the call has issued to the three endpoints.
OutboundCalls == suggestCalls + GeocoderCalls

\* C30: if every fetch issued eventually settles, a resolve_address call
\* that has been received is eventually answered with a result or an error,
\* and at no moment has it issued more than 1 + 2*N fetches, N being the
\* number of suggestions received.
C30_Terminates ==
    /\ [](Resolving => OutboundCalls <= 1 + 2 * N)
    /\ (Resolving /\ pc = "suggest") ~> (pc \in {"done", "error"} /\ response.count = 1)

\* A call answered after 1 + 2*2 fetches: both tiers failed for both
\* suggestions.
C30_Witness ==
    /\ Resolving
    /\ pc = "done"
    /\ N = 2
    /\ OutboundCalls = 5
    /\ response.count = 1

\* C25: every tool request other than the one whose geocoder fetches never
\* settle is answered once it has been received, with the answer of its own
\* tool, whatever request 1 is waiting for.
C25_OthersComplete ==
    /\ [](\A q \in 1..MaxRequests :
            Answered(q) =>
                requests[q].answer =
                    IF requests[q].pc = "done" THEN "json"
                    ELSE IF requests[q].pc = "answered" THEN "text" ELSE "error")
    /\ \A q \in 2..MaxRequests :
          (requests[q].pc = "received") ~> Answered(q)

\* Request 2, a resolve_address call, has been answered with its result
\* while a region geocoder fetch of request 1 is still outstanding.
C25_Witness ==
    /\ requests[1].tool = "resolve_address"
    /\ requests[1].pc = "enrich"
    /\ Len(requests[1].tier) = 2
    /\ requests[1].tier[1] = "region"
    /\ requests[2].tool = "resolve_address"
    /\ requests[2].pc = "done"
    /\ requests[2].answer = "json"

====
